---- MODULE Spec2Model ----
(***************************************************************************)
(* Model of Dashboard.py: one Streamlit script that loads a CSV through a  *)
(* memoized loader, reads the sidebar widgets, filters the table, guards   *)
(* the empty result and renders four tabs.  Streamlit re-executes the      *)
(* whole script on every interaction; only the st.cache_data store         *)
(* survives a re-execution.                                                *)
(*                                                                         *)
(* Tables are sequences of rows; a row keeps the pandas index label `idx`  *)
(* it got from read_csv, as boolean-mask selection does.  Timestamps are   *)
(* whole hours since an epoch, so .dt.date is ts \div 24 and .dt.hour is   *)
(* ts % 24.  A mean is kept exact as the pair num/den.  Figures, metric    *)
(* tiles and the value_counts tables are rendering and are not modelled;   *)
(* the correlation matrix is modelled by its labels only.                  *)
(***************************************************************************)
EXTENDS Integers, Sequences, FiniteSets, TLC

\* ---------------------------------------------------------------- bounds
MaxRows == 2          \* rows in the CSV file
MaxRuns == 2          \* script executions in one process
MaxCol  == 2          \* length of the column handed to pd.cut in CutSpec

\* ------------------------------------------------------- program constants
HoursPerDay     == 24
TempSliderMin   == 50
TempSliderMax   == 120
TempSliderDef   == 90
VibSliderMin    == 0
VibSliderMax    == 100
VibSliderDef    == 70
MinCorrVars     == 2

bins   == <<0, 6, 12, 18, 24>>
labels == <<"Madrugada", "Manhã", "Tarde", "Noite">>
NaN    == "NaN"

Sensors       == <<"temperature", "vibration", "humidity", "pressure", "energy_consumption">>
PadraoSensors == {"temperature", "vibration", "energy_consumption"}
ManutencaoOptions == {"Todas", "Apenas com manutenção", "Sem manutenção"}
Formatos      == {"CSV", "JSON"}

\* --------------------------------------------------------- input domains
\* Rows a CSV file may hold (machine ids are integers so that groupby can
\* sort them).  The third row sits exactly on the default thresholds and
\* shares machine and hour with the first; the second is the only row of
\* machine 2, the only failure and exceeds the vibration threshold alone.
RawRow(m, ts, st, t, v, h, p, e, ft, mr, life) ==
    [machine |-> m, timestamp |-> ts, machine_status |-> st,
     temperature |-> t, vibration |-> v, humidity |-> h, pressure |-> p,
     energy_consumption |-> e, failure_type |-> ft,
     maintenance_required |-> mr, predicted_remaining_life |-> life]

RowPool ==
    { RawRow(1, 26, "Running", 95, 10, 40, 3, 5, "Normal",      "No",  100),
      RawRow(2, 32, "Failure", 50, 80, 45, 2, 7, "Overheating", "Yes", 20),
      RawRow(1, 50, "Running", 90, 70, 50, 3, 6, "Normal",      "Yes", 90) }

SeqsUpTo(S, n) == UNION { [1..k -> S] : k \in 1..n }

Files == SeqsUpTo(RowPool, MaxRows)

TempLimits == { t \in {90, 95} : TempSliderMin <= t /\ t <= TempSliderMax }
VibLimits  == { v \in {70, 80} : VibSliderMin <= v /\ v <= VibSliderMax }

\* Selections of the correlation multiselect: the sizes 0, 1, 2 and the default.
CorrChoices == { <<>>, <<"temperature">>, <<"temperature", "vibration">>,
                 <<"temperature", "vibration", "energy_consumption">> }

HourInputs == -1 .. 25

\* ----------------------------------------------------------------- state
VARIABLES
    file,                   \* the CSV file on disk
    cache,                  \* st.cache_data store of load_data: <<>> or <<Dataset>>
    loads,                  \* times the body of load_data has run
    runs,                   \* script executions started
    pc,                     \* position in the script
    dados,
    cut_x, cut_out,         \* argument and result of the pd.cut call
    maquinas_selecionadas, date_range, status_selecionados,
    filtro_manutencao, filtro_falha,
    dados_filtrados,
    warning, error,
    sensor_metrics, variaveis_correlacao, corr_matrix,
    maquina_selecionada, dados_maquina, ultimo, variavel_padrao, dados_hora,
    temp_limite, vib_limite, anomalias, manutencao_agrupado,
    formato, export

loaderVars == <<file, cache, loads, runs, dados, cut_x, cut_out>>
widgetVars == <<maquinas_selecionadas, date_range, status_selecionados,
                filtro_manutencao, filtro_falha>>
tab1Vars   == <<sensor_metrics, variaveis_correlacao, corr_matrix>>
tab2Vars   == <<maquina_selecionada, dados_maquina, ultimo, variavel_padrao, dados_hora>>
tab3Vars   == <<temp_limite, vib_limite, anomalias, manutencao_agrupado>>
tab4Vars   == <<formato, export>>
vars == <<loaderVars, pc, widgetVars, dados_filtrados, warning, error,
          tab1Vars, tab2Vars, tab3Vars, tab4Vars>>

\* --------------------------------------------------------------- helpers
Range(s) == { s[i] : i \in DOMAIN s }

Min(S) == CHOOSE x \in S : \A y \in S : x <= y

RECURSIVE SortSet(_)
SortSet(S) == IF S = {} THEN <<>> ELSE <<Min(S)>> \o SortSet(S \ {Min(S)})

RECURSIVE SeqSum(_)
SeqSum(s) == IF s = <<>> THEN 0 ELSE s[1] + SeqSum(Tail(s))

Column(view, c) == [i \in DOMAIN view |-> view[i][c]]

\* ---------------------------------------------------------------- loader
\* pd.cut(x, bins, labels, right=False) on one value: the label of the
\* interval [bins[i], bins[i+1]) holding x, NaN when no interval holds it.
PdCut_RightClosed(x) ==
    IF \E i \in DOMAIN labels : bins[i] < x /\ x <= bins[i + 1]
    THEN labels[CHOOSE i \in DOMAIN labels : bins[i] < x /\ x <= bins[i + 1]]
    ELSE NaN

PdCut(x) ==
    IF \E i \in DOMAIN labels : bins[i] <= x /\ x < bins[i + 1]
    THEN labels[CHOOSE i \in DOMAIN labels : bins[i] <= x /\ x < bins[i + 1]]
    ELSE NaN

PdCutColumn(col) == [i \in DOMAIN col |-> PdCut(col[i])]

\* Body of load_data: read_csv gives the rows a RangeIndex, to_datetime and
\* the .dt accessors derive date, time and hour, pd.cut derives day_part.
LoadBody(f) ==
    [i \in DOMAIN f |->
        [idx |-> i - 1,
         machine |-> f[i].machine,
         timestamp |-> f[i].timestamp,
         machine_status |-> f[i].machine_status,
         temperature |-> f[i].temperature,
         vibration |-> f[i].vibration,
         humidity |-> f[i].humidity,
         pressure |-> f[i].pressure,
         energy_consumption |-> f[i].energy_consumption,
         failure_type |-> f[i].failure_type,
         maintenance_required |-> f[i].maintenance_required,
         predicted_remaining_life |-> f[i].predicted_remaining_life,
         date |-> f[i].timestamp \div HoursPerDay,
         time |-> f[i].timestamp % HoursPerDay,
         hour |-> f[i].timestamp % HoursPerDay,
         day_part |-> PdCut(f[i].timestamp % HoursPerDay)]]

\* st.cache_data: a stored result is returned without running the body.
CacheHit_Never(c) == FALSE

CacheHit(c) == c # <<>>

\* -------------------------------------------------------------- filtering
\* Lines 87-93: the conjunction of the five masks; selection by a boolean
\* mask keeps the rows that pass, in order (SelectSeq).
MaskRow_EndExclusive(r, ms, dr, ss, ff) ==
    /\ r.machine \in ms
    /\ r.date >= dr[1]
    /\ r.date < dr[2]
    /\ r.machine_status \in ss
    /\ r.failure_type \in ff

MaskRow_EmptyMeansAll(r, ms, dr, ss, ff) ==
    /\ (ms = {} \/ r.machine \in ms)
    /\ r.date >= dr[1]
    /\ r.date <= dr[2]
    /\ (ss = {} \/ r.machine_status \in ss)
    /\ (ff = {} \/ r.failure_type \in ff)

MaskRow(r, ms, dr, ss, ff) ==
    /\ r.machine \in ms
    /\ r.date >= dr[1]
    /\ r.date <= dr[2]
    /\ r.machine_status \in ss
    /\ r.failure_type \in ff

Reverse(s) == [i \in DOMAIN s |-> s[Len(s) + 1 - i]]

MaskFilter_Descending(d, ms, dr, ss, ff) ==
    Reverse(SelectSeq(d, LAMBDA r : MaskRow(r, ms, dr, ss, ff)))

MaskFilter(d, ms, dr, ss, ff) ==
    SelectSeq(d, LAMBDA r : MaskRow(r, ms, dr, ss, ff))

\* Lines 95-98: the maintenance radio narrows the view, 'Todas' leaves it.
ManutencaoFilter(view, opt) ==
    IF opt = "Apenas com manutenção"
    THEN SelectSeq(view, LAMBDA r : r.maintenance_required = "Yes")
    ELSE IF opt = "Sem manutenção"
    THEN SelectSeq(view, LAMBDA r : r.maintenance_required = "No")
    ELSE view

\* ------------------------------------------------------------ aggregation
\* Series.unique(): the distinct values of a column.
Unique(view, c) == { view[i][c] : i \in DOMAIN view }

\* groupby(key): the distinct key values present, in ascending order.
GroupKeys_Unobserved(view, key) == { dados[i][key] : i \in DOMAIN dados }

GroupKeys(view, key) == { view[i][key] : i \in DOMAIN view }

Group(view, key, k) == SelectSeq(view, LAMBDA r : r[key] = k)

Mean(col) == [num |-> SeqSum(col), den |-> Len(col)]

\* groupby(key)[cols].mean().reset_index()
GroupByMean(view, key, cols) ==
    LET ks == SortSet(GroupKeys(view, key))
    IN  [i \in DOMAIN ks |->
            [key  |-> ks[i],
             mean |-> [c \in cols |-> Mean(Column(Group(view, key, ks[i]), c))]]]

\* groupby(key).size().reset_index()
GroupBySize(view, key) ==
    LET ks == SortSet(GroupKeys(view, key))
    IN  [i \in DOMAIN ks |-> [key |-> ks[i], size |-> Len(Group(view, key, ks[i]))]]

\* Lines 263-266.
IsAnomalia_Inclusive(r, t, v) == r.temperature >= t \/ r.vibration >= v

IsAnomalia_Below(r, t, v) == r.temperature < t \/ r.vibration > v

IsAnomalia(r, t, v) == r.temperature > t \/ r.vibration > v

Anomalias(view, t, v) == SelectSeq(view, LAMBDA r : IsAnomalia(r, t, v))

\* Line 169.
EnoughCorrVars_AnyVar(vs) == Len(vs) >= 1

EnoughCorrVars(vs) == Len(vs) >= MinCorrVars

\* ------------------------------------------------------------------ Init
NoTable == <<>>
NoRow   == [idx |-> -1]

RunReset ==
    /\ maquinas_selecionadas = {} /\ date_range = <<>>
    /\ status_selecionados = {} /\ filtro_manutencao = "" /\ filtro_falha = {}
    /\ dados_filtrados = NoTable
    /\ warning = "" /\ error = ""
    /\ sensor_metrics = NoTable /\ variaveis_correlacao = <<>> /\ corr_matrix = <<>>
    /\ maquina_selecionada = 0 /\ dados_maquina = NoTable /\ ultimo = NoRow
    /\ variavel_padrao = "" /\ dados_hora = NoTable
    /\ temp_limite = -1 /\ vib_limite = -1 /\ anomalias = NoTable
    /\ manutencao_agrupado = NoTable
    /\ formato = "" /\ export = ""

Init ==
    /\ file \in Files
    /\ cache = <<>> /\ loads = 0 /\ runs = 1 /\ pc = "load"
    /\ dados = NoTable /\ cut_x = <<>> /\ cut_out = <<>>
    /\ RunReset

\* --------------------------------------------------------------- actions
\* Line 47: dados = load_data()
LoadData ==
    /\ pc = "load"
    /\ IF CacheHit(cache)
       THEN /\ dados' = cache[1]
            /\ UNCHANGED <<cache, loads, cut_x, cut_out>>
       ELSE /\ dados' = LoadBody(file)
            /\ cache' = <<LoadBody(file)>>
            /\ loads' = loads + 1
            /\ cut_x' = Column(LoadBody(file), "hour")
            /\ cut_out' = PdCutColumn(Column(LoadBody(file), "hour"))
    /\ pc' = "widgets"
    /\ UNCHANGED <<file, runs, widgetVars, dados_filtrados, warning, error,
                   tab1Vars, tab2Vars, tab3Vars, tab4Vars>>

\* Lines 49-85: the sidebar widgets.  Multiselects offer the values present
\* in the data; the date picker is limited to [min_date, max_date].
Sidebar ==
    /\ pc = "widgets"
    /\ maquinas_selecionadas' \in SUBSET Unique(dados, "machine")
    /\ \E a, b \in Unique(dados, "date") :
          /\ a <= b
          /\ date_range' = <<a, b>>
    /\ status_selecionados' \in SUBSET Unique(dados, "machine_status")
    /\ filtro_manutencao' \in ManutencaoOptions
    /\ filtro_falha' \in SUBSET Unique(dados, "failure_type")
    /\ pc' = "filter"
    /\ UNCHANGED <<loaderVars, dados_filtrados, warning, error,
                   tab1Vars, tab2Vars, tab3Vars, tab4Vars>>

\* Lines 87-93.
FilterMask ==
    /\ pc = "filter"
    /\ dados_filtrados' = MaskFilter(dados, maquinas_selecionadas, date_range,
                                      status_selecionados, filtro_falha)
    /\ pc' = "manutencao"
    /\ UNCHANGED <<loaderVars, widgetVars, warning, error,
                   tab1Vars, tab2Vars, tab3Vars, tab4Vars>>

\* Lines 95-98.
FilterManutencao ==
    /\ pc = "manutencao"
    /\ dados_filtrados' = ManutencaoFilter(dados_filtrados, filtro_manutencao)
    /\ pc' = "guard"
    /\ UNCHANGED <<loaderVars, widgetVars, warning, error,
                   tab1Vars, tab2Vars, tab3Vars, tab4Vars>>

\* Lines 100-102: st.warning and st.stop() on an empty view.
EmptyGuard ==
    /\ pc = "guard"
    /\ IF Len(dados_filtrados) = 0
       THEN /\ warning' = "Nenhum dado encontrado"
            /\ pc' = "stopped"
       ELSE /\ pc' = "tab1"
            /\ UNCHANGED warning
    /\ UNCHANGED <<loaderVars, widgetVars, dados_filtrados, error,
                   tab1Vars, tab2Vars, tab3Vars, tab4Vars>>

\* Lines 111-180: per-machine sensor means and the correlation block.
Tab1 ==
    /\ pc = "tab1"
    /\ sensor_metrics' = GroupByMean(dados_filtrados, "machine", Range(Sensors))
    /\ variaveis_correlacao' \in CorrChoices
    /\ IF EnoughCorrVars(variaveis_correlacao')
       THEN /\ corr_matrix' = <<variaveis_correlacao'>>
            /\ UNCHANGED warning
       ELSE /\ warning' = "Selecione pelo menos 2 sensores"
            /\ UNCHANGED corr_matrix
    /\ pc' = "tab2"
    /\ UNCHANGED <<loaderVars, widgetVars, dados_filtrados, error,
                   tab2Vars, tab3Vars, tab4Vars>>

\* Lines 182-253: the machine detail.  .iloc[-1] on an empty selection raises
\* IndexError, which ends the script run.
Tab2 ==
    /\ pc = "tab2"
    /\ maquina_selecionada' \in maquinas_selecionadas
    /\ dados_maquina' = SelectSeq(dados_filtrados,
                                 LAMBDA r : r.machine = maquina_selecionada')
    /\ IF Len(dados_maquina') = 0
       THEN /\ error' = "IndexError"
            /\ pc' = "crashed"
            /\ UNCHANGED <<ultimo, variavel_padrao, dados_hora>>
       ELSE /\ ultimo' = dados_maquina'[Len(dados_maquina')]
            /\ variavel_padrao' \in PadraoSensors
            /\ dados_hora' = GroupByMean(dados_maquina', "hour", {variavel_padrao'})
            /\ pc' = "tab3"
            /\ UNCHANGED error
    /\ UNCHANGED <<loaderVars, widgetVars, dados_filtrados, warning,
                   tab1Vars, tab3Vars, tab4Vars>>

\* Lines 255-322: anomalies and the maintenance count.
Tab3 ==
    /\ pc = "tab3"
    /\ temp_limite' \in TempLimits
    /\ vib_limite' \in VibLimits
    /\ anomalias' = Anomalias(dados_filtrados, temp_limite', vib_limite')
    /\ LET manutencao == SelectSeq(dados_filtrados,
                                  LAMBDA r : r.maintenance_required = "Yes")
       IN  IF manutencao # <<>>
           THEN manutencao_agrupado' = GroupBySize(manutencao, "machine")
           ELSE UNCHANGED manutencao_agrupado
    /\ pc' = "tab4"
    /\ UNCHANGED <<loaderVars, widgetVars, dados_filtrados, warning, error,
                   tab1Vars, tab2Vars, tab4Vars>>

\* Lines 324-359: the download tab; a file is generated only on the button.
Tab4 ==
    /\ pc = "tab4"
    /\ formato' \in Formatos
    /\ \E pressed \in BOOLEAN :
          export' = IF pressed THEN formato' ELSE ""
    /\ pc' = "done"
    /\ UNCHANGED <<loaderVars, widgetVars, dados_filtrados, warning, error,
                   tab1Vars, tab2Vars, tab3Vars>>

\* A UI interaction: Streamlit runs the script again from the top.  Nothing
\* but the cache_data store survives.
Rerun ==
    /\ pc \in {"done", "stopped", "crashed"}
    /\ runs < MaxRuns
    /\ runs' = runs + 1
    /\ pc' = "load"
    /\ dados' = NoTable
    /\ maquinas_selecionadas' = {} /\ date_range' = <<>>
    /\ status_selecionados' = {} /\ filtro_manutencao' = "" /\ filtro_falha' = {}
    /\ dados_filtrados' = NoTable
    /\ warning' = "" /\ error' = ""
    /\ sensor_metrics' = NoTable /\ variaveis_correlacao' = <<>> /\ corr_matrix' = <<>>
    /\ maquina_selecionada' = 0 /\ dados_maquina' = NoTable /\ ultimo' = NoRow
    /\ variavel_padrao' = "" /\ dados_hora' = NoTable
    /\ temp_limite' = -1 /\ vib_limite' = -1 /\ anomalias' = NoTable
    /\ manutencao_agrupado' = NoTable
    /\ formato' = "" /\ export' = ""
    /\ UNCHANGED <<file, cache, loads, cut_x, cut_out>>

Next ==
    \/ LoadData
    \/ Sidebar
    \/ FilterMask
    \/ FilterManutencao
    \/ EmptyGuard
    \/ Tab1
    \/ Tab2
    \/ Tab3
    \/ Tab4
    \/ Rerun

Spec == Init /\ [][Next]_vars

\* ------------------------------------------------ pd.cut as a pure function
\* The pd.cut call of load_data applied to an arbitrary integer column,
\* including values that .dt.hour never produces.
CutInit ==
    /\ cut_x \in SeqsUpTo(HourInputs, MaxCol)
    /\ cut_out = <<>>
    /\ pc = "cut"
    /\ file = <<>> /\ cache = <<>> /\ loads = 0 /\ runs = 1 /\ dados = NoTable
    /\ RunReset

PdCutCall ==
    /\ pc = "cut"
    /\ cut_out' = PdCutColumn(cut_x)
    /\ pc' = "cut_done"
    /\ UNCHANGED <<file, cache, loads, runs, dados, cut_x, widgetVars,
                   dados_filtrados, warning, error,
                   tab1Vars, tab2Vars, tab3Vars, tab4Vars>>

CutNext == PdCutCall

CutSpec == CutInit /\ [][CutNext]_vars

\* ================================================================ claims
AfterMask   == {"manutencao", "guard", "stopped", "tab1", "tab2", "tab3", "tab4",
                "done", "crashed"}
AfterFilter == AfterMask \ {"manutencao"}
PastGuard   == {"tab1", "tab2", "tab3", "tab4", "done", "crashed"}
AfterTab1   == {"tab2", "tab3", "tab4", "done", "crashed"}
AfterTab2   == {"tab3", "tab4", "done"}
AfterTab3   == {"tab4", "done"}

\* view is a sub-sequence of d: each row is the row of d with its index
\* label, and the labels strictly increase (so no row repeats and the
\* relative order of d is kept).
IsSubTable(view, d) ==
    /\ \A i \in DOMAIN view :
          /\ view[i].idx + 1 \in DOMAIN d
          /\ d[view[i].idx + 1] = view[i]
    /\ \A i, j \in DOMAIN view : i < j => view[i].idx < view[j].idx

Holds(view, r) == \E j \in DOMAIN view : view[j] = r

\* C1: the Filtered View is a sub-sequence of the Dataset (same records, no
\* record more often, same relative order), after the five-mask selection
\* and after the maintenance narrowing.
C1_FilteredIsSubsequence ==
    pc \in AfterMask => IsSubTable(dados_filtrados, dados)

\* C1 witness: the narrowing step has acted and two records survive.
C1_Witness ==
    /\ pc = "guard"
    /\ filtro_manutencao = "Apenas com manutenção"
    /\ Len(dados_filtrados) = 2
    /\ dados_filtrados[1] # dados_filtrados[2]

\* The five predicates of the Filter Criteria, stated on one record.
MachineOk(r)    == r.machine \in maquinas_selecionadas
DateOk(r)       == date_range[1] <= r.date /\ r.date <= date_range[2]
StatusOk(r)     == r.machine_status \in status_selecionados
FalhaOk(r)      == r.failure_type \in filtro_falha
ManutencaoOk(r) ==
    CASE filtro_manutencao = "Todas" -> TRUE
      [] filtro_manutencao = "Apenas com manutenção" -> r.maintenance_required = "Yes"
      [] filtro_manutencao = "Sem manutenção" -> r.maintenance_required = "No"
SatisfiesAll(r) ==
    MachineOk(r) /\ DateOk(r) /\ StatusOk(r) /\ FalhaOk(r) /\ ManutencaoOk(r)

\* C2: the Filtered View holds exactly the records of the Dataset that
\* satisfy all five predicates, the date range being inclusive at both ends.
C2_FilterExact ==
    pc \in AfterFilter =>
        /\ \A i \in DOMAIN dados :
              Holds(dados_filtrados, dados[i]) <=> SatisfiesAll(dados[i])
        /\ Len(dados_filtrados) =
              Cardinality({ i \in DOMAIN dados : SatisfiesAll(dados[i]) })

\* C2 witness: a record dated on the end of a two-day range is kept while
\* another record is dropped.
C2_Witness ==
    /\ pc = "guard"
    /\ date_range[1] < date_range[2]
    /\ \E j \in DOMAIN dados_filtrados : dados_filtrados[j].date = date_range[2]
    /\ Len(dados_filtrados) < Len(dados)

NoRecordMatches == \A i \in DOMAIN dados : ~SatisfiesAll(dados[i])

\* C3 as stated: when no record matches, the filter yields an empty view, no
\* error, and the run is not aborted.
C3_Original ==
    (pc \in AfterFilter /\ NoRecordMatches) =>
        /\ dados_filtrados = <<>>
        /\ error = ""
        /\ pc # "stopped"

\* C3 amended: when no record matches (an empty selection included), the
\* filter yields an empty view without raising; the script then shows a
\* warning and stops the run before any tab is rendered.
C3_EmptyViewThenStop ==
    (pc \in AfterFilter /\ NoRecordMatches) =>
        /\ dados_filtrados = <<>>
        /\ error = ""
        /\ pc \in {"guard", "stopped"}
        /\ pc = "stopped" => warning = "Nenhum dado encontrado"
        /\ sensor_metrics = NoTable /\ dados_maquina = NoTable /\ anomalias = NoTable

\* C3 witness: the machine selection is empty, every other facet lets every
\* record pass, and the run has stopped on the empty view.
C3_Witness ==
    /\ pc = "stopped"
    /\ maquinas_selecionadas = {}
    /\ \A i \in DOMAIN dados :
          DateOk(dados[i]) /\ StatusOk(dados[i]) /\ FalhaOk(dados[i]) /\ ManutencaoOk(dados[i])
    /\ dados_filtrados = <<>>

\* C4: detectAnomalies returns exactly the records of the view with
\* temperature > tempThreshold or vibration > vibrationThreshold, strictly.
C4_AnomaliasExact ==
    pc \in AfterTab3 =>
        /\ \A i \in DOMAIN dados_filtrados :
              Holds(anomalias, dados_filtrados[i]) <=>
                 (\/ dados_filtrados[i].temperature > temp_limite
                  \/ dados_filtrados[i].vibration > vib_limite)
        /\ Len(anomalias) =
              Cardinality({ i \in DOMAIN dados_filtrados :
                              \/ dados_filtrados[i].temperature > temp_limite
                              \/ dados_filtrados[i].vibration > vib_limite })

\* C4 witness: a record equal to both thresholds is left out while a record
\* above the temperature threshold only is returned.
C4_Witness ==
    /\ pc = "tab4"
    /\ temp_limite = TempSliderDef /\ vib_limite = VibSliderDef
    /\ \E i \in DOMAIN dados_filtrados :
          /\ dados_filtrados[i].temperature = temp_limite
          /\ dados_filtrados[i].vibration = vib_limite
          /\ ~Holds(anomalias, dados_filtrados[i])
    /\ \E j \in DOMAIN anomalias :
          /\ anomalias[j].temperature > temp_limite
          /\ anomalias[j].vibration <= vib_limite

MonoTemps == TempLimits \cup {TempSliderMax}
MonoVibs  == VibLimits \cup {VibSliderMax}

\* C5: raising either threshold never adds a record: the result for any
\* thresholds at or above the chosen ones is contained in the result shown.
C5_AnomaliasMonotonic ==
    pc \in AfterTab3 =>
        \A t2 \in MonoTemps, v2 \in MonoVibs :
            (temp_limite <= t2 /\ vib_limite <= v2) =>
                /\ \A i \in DOMAIN dados_filtrados :
                      Holds(Anomalias(dados_filtrados, t2, v2), dados_filtrados[i])
                          => Holds(anomalias, dados_filtrados[i])
                /\ Len(Anomalias(dados_filtrados, t2, v2)) <= Len(anomalias)

\* C5 witness: anomalies are shown and a higher temperature threshold gives
\* strictly fewer.
C5_Witness ==
    /\ pc = "tab4"
    /\ anomalias # <<>>
    /\ \E t2 \in MonoTemps :
          /\ temp_limite < t2
          /\ Len(Anomalias(dados_filtrados, t2, vib_limite)) < Len(anomalias)

CorrWarning == "Selecione pelo menos 2 sensores"

\* C6 as stated: fewer than 2 metrics fail with InsufficientInputError and no
\* matrix; 2 or more give a matrix and no such error.
C6_Original ==
    pc \in AfterTab1 =>
        IF Len(variaveis_correlacao) < 2
        THEN corr_matrix = <<>> /\ error = "InsufficientInputError"
        ELSE corr_matrix = <<variaveis_correlacao>> /\ error # "InsufficientInputError"

\* C6 amended: with fewer than 2 metrics no matrix is computed, a warning is
\* shown, no error is raised and the script goes on to the next tab; with 2
\* or more metrics the matrix is computed and no warning is shown.
C6_CorrNeedsTwo ==
    pc \in AfterTab1 =>
        IF Len(variaveis_correlacao) < 2
        THEN /\ corr_matrix = <<>>
             /\ warning = CorrWarning
             /\ error # "InsufficientInputError"
             /\ pc = "tab2" => error = ""
        ELSE /\ corr_matrix = <<variaveis_correlacao>>
             /\ warning = ""
             /\ error # "InsufficientInputError"

\* C6 witness: one metric selected, the warning shown, and the script has
\* gone on through the later tabs.
C6_Witness ==
    /\ pc = "done"
    /\ Len(variaveis_correlacao) = 1
    /\ corr_matrix = <<>>
    /\ warning = CorrWarning

RowsWith(view, key, k) == { i \in DOMAIN view : view[i][key] = k }

RECURSIVE SumOver(_, _, _)
SumOver(view, c, S) ==
    IF S = {} THEN 0
    ELSE LET i == CHOOSE i \in S : TRUE
         IN  view[i][c] + SumOver(view, c, S \ {i})

OneRowPerKey(summary, view, key) ==
    /\ { summary[i].key : i \in DOMAIN summary } = { view[j][key] : j \in DOMAIN view }
    /\ \A i, j \in DOMAIN summary : i # j => summary[i].key # summary[j].key

MeansOf(summary, view, key, cols) ==
    \A i \in DOMAIN summary : \A c \in cols :
        /\ summary[i].mean[c].num = SumOver(view, c, RowsWith(view, key, summary[i].key))
        /\ summary[i].mean[c].den = Cardinality(RowsWith(view, key, summary[i].key))

Manutencao == SelectSeq(dados_filtrados, LAMBDA r : r.maintenance_required = "Yes")

\* C7: each aggregate has exactly one row per group key present in its view,
\* carrying the operation over that group's records, and an empty view gives
\* an empty summary: the per-machine sensor means, the per-hour mean of the
\* machine detail and the per-machine maintenance count.
C7_OneRowPerGroup ==
    /\ pc \in AfterTab1 =>
          /\ OneRowPerKey(sensor_metrics, dados_filtrados, "machine")
          /\ MeansOf(sensor_metrics, dados_filtrados, "machine", Range(Sensors))
    /\ pc \in AfterTab2 =>
          /\ OneRowPerKey(dados_hora, dados_maquina, "hour")
          /\ MeansOf(dados_hora, dados_maquina, "hour", {variavel_padrao})
    /\ pc \in AfterTab3 =>
          /\ OneRowPerKey(manutencao_agrupado, Manutencao, "machine")
          /\ \A i \in DOMAIN manutencao_agrupado :
                manutencao_agrupado[i].size =
                    Cardinality(RowsWith(Manutencao, "machine", manutencao_agrupado[i].key))
    /\ GroupByMean(NoTable, "machine", Range(Sensors)) = <<>>
    /\ GroupBySize(NoTable, "machine") = <<>>

\* C7 witness: a selected machine has no surviving record and gets no row,
\* and all three aggregates have been computed.
C7_Witness ==
    /\ pc = "tab4"
    /\ \E m \in maquinas_selecionadas : RowsWith(dados_filtrados, "machine", m) = {}
    /\ Len(sensor_metrics) = 1
    /\ Len(dados_hora) = 1
    /\ Len(manutencao_agrupado) = 1

\* C8: across script re-executions the body of load_data runs exactly once;
\* later calls return the stored result, and every call returns the same
\* Dataset.
C8_LoadOnce ==
    /\ loads <= 1
    /\ loads = 0 <=> (runs = 1 /\ pc = "load")
    /\ loads = 1 => cache = <<LoadBody(file)>>
    /\ pc # "load" => dados = cache[1]

\* C8 witness: the second execution has called load_data and the body has
\* still run once.
C8_Witness ==
    /\ runs = 2
    /\ pc = "widgets"
    /\ loads = 1
    /\ dados # NoTable

SelectedHaveRecords ==
    \A m \in maquinas_selecionadas : RowsWith(dados_filtrados, "machine", m) # {}

\* C10: past the empty-result guard every machine offered by the detail
\* selector has records in the Filtered View, so reading its last record
\* never fails.
C10_DetailWellDefined ==
    /\ pc \in PastGuard => SelectedHaveRecords
    /\ error # "IndexError"

Bucket(h) ==
    CASE 0 <= h /\ h < 6 -> "Madrugada"
      [] 6 <= h /\ h < 12 -> "Manhã"
      [] 12 <= h /\ h < 18 -> "Tarde"
      [] 18 <= h /\ h < 24 -> "Noite"

InDay(h) == 0 <= h /\ h < 24

====
